---------------------------- MODULE Spec2Model ----------------------------
(* A model of GmicQt::FilterThread (src/src/FilterThread.cpp): the worker    *)
(* thread that runs the G'MIC interpreter, and the decoder of the status     *)
(* string the interpreter leaves behind.                                     *)
(*                                                                           *)
(* Strings are sequences of character codes.  A C string is the sequence of  *)
(* its characters before the terminating 0; the code indexes from 0, the     *)
(* sequences from 1, and CharAt bridges the two.                             *)
EXTENDS Integers, Sequences, FiniteSets, TLC

---------------------------------------------------------------------------
(* Characters.  gmic_lbrace, gmic_rbrace and gmic_store are set by gmic.h;   *)
(* the decoder only compares them for equality, so only their being distinct *)
(* from each other and from '_' and the digits matters here.                 *)

gmic_lbrace == 123
gmic_rbrace == 125
gmic_store == 29
Underscore == 95
Digit0 == 48
Digit2 == 50
NulChar == 0

\* Some more characters, used to write inputs down.
Digit1 == Digit0 + 1
Digit3 == Digit2 + 1
Letter == [a |-> 97, b |-> 98, f |-> 102, o |-> 111, r |-> 114, x |-> 120]
ChA == Letter.a
ChB == Letter.b
ChF == Letter.f
ChO == Letter.o
ChR == Letter.r
ChX == Letter.x

\* The value a null `const char *` is modelled by: no C string holds a
\* negative character code here.
NullPtr == <<0 - 1>>

---------------------------------------------------------------------------
(* Bounds of the model.                                                      *)

\* Longest status string enumerated exhaustively.
MaxLen == 5
\* How many times one thread object is started.
MaxRuns == 2

\* The characters the exhaustive inputs are made of.
Alphabet == {gmic_lbrace, gmic_rbrace, Underscore, Digit0, Digit2, Digit3, ChA}

RECURSIVE StringsUpTo(_)
StringsUpTo(n) ==
  IF n = 0 THEN {<< >>}
  ELSE LET shorter == StringsUpTo(n - 1)
       IN  shorter \cup {Append(s, c) : s \in {t \in shorter : Len(t) = n - 1}, c \in Alphabet}

\* "{foo}{bar_1}"
ExFooBar1 == <<gmic_lbrace, ChF, ChO, ChO, gmic_rbrace,
               gmic_lbrace, ChB, ChA, ChR, Underscore, Digit1, gmic_rbrace>>
\* "{foo}{bar}_1"
ExFooBarSuffix == <<gmic_lbrace, ChF, ChO, ChO, gmic_rbrace,
                    gmic_lbrace, ChB, ChA, ChR, gmic_rbrace, Underscore, Digit1>>
\* "{foo"
ExFooOpen == <<gmic_lbrace, ChF, ChO, ChO>>
\* "{a}{foo"
ExAFooOpen == <<gmic_lbrace, ChA, gmic_rbrace, gmic_lbrace, ChF, ChO, ChO>>
\* "foo}"
ExFooClose == <<ChF, ChO, ChO, gmic_rbrace>>
\* "{a}x"
ExAStray == <<gmic_lbrace, ChA, gmic_rbrace, ChX>>
\* "{a}}"
ExAClose == <<gmic_lbrace, ChA, gmic_rbrace, gmic_rbrace>>
\* "{a}_3"
ExABadSuffix == <<gmic_lbrace, ChA, gmic_rbrace, Underscore, Digit3>>
\* "{a{b}"
ExNested == <<gmic_lbrace, ChA, gmic_lbrace, ChB, gmic_rbrace>>
\* "{a}_1{b}"
ExSuffixThenSegment == <<gmic_lbrace, ChA, gmic_rbrace, Underscore, Digit1,
                         gmic_lbrace, ChB, gmic_rbrace>>

Examples == {ExFooBar1, ExFooBarSuffix, ExFooOpen, ExAFooOpen, ExFooClose,
             ExAStray, ExAClose, ExABadSuffix, ExNested, ExSuffixThenSegment}

\* The status strings the decoder is applied to.
StatusInputs == StringsUpTo(MaxLen) \cup Examples \cup {NullPtr}

---------------------------------------------------------------------------
(* status2Items, lines 95-127.                                               *)

\* status[i] of a C string: the terminating 0 sits at index strlen.
CharAt(s, i) == IF i < Len(s) THEN s[i + 1] ELSE NulChar

\* std::strlen
strlen(s) == Len(s)

\* Line 96: the guard of the early return.
EntryRejects(s) == s = NullPtr \/ CharAt(s, 0) # gmic_lbrace

\* Lines 98-101: the locals before the loop.  `returned` tells that a return
\* statement was executed, `out` is then the list returned.
ScanStart == [k |-> 0, pk |-> 0, is_inside |-> FALSE, out |-> << >>, returned |-> FALSE]

\* A list of one empty string where the empty list is meant.
OneEmptyItem == << <<NulChar>> >>

\* gmic_list<char>(): a list of no items.
EmptyList == << >>

\* `return gmic_list<char>()`
ReturnEmpty(st) == [st EXCEPT !.out = EmptyList, !.returned = TRUE]

\* The ++k of the for statement, after a body that did not return.
NextK(st) == IF st.returned THEN st ELSE [st EXCEPT !.k = st.k + 1]

\* An opening brace inside a segment taken as the start of a new one.
CaseLbraceRestarting(s, st) ==
  IF st.k >= strlen(s) - 1
    THEN ReturnEmpty(st)
    ELSE [st EXCEPT !.is_inside = TRUE, !.pk = st.k + 1]

\* Lines 106-112.
CaseLbrace(s, st) ==
  IF ~st.is_inside
    THEN IF st.k >= strlen(s) - 1
           THEN ReturnEmpty(st)
           ELSE [st EXCEPT !.is_inside = TRUE, !.pk = st.k + 1]
    ELSE st

\* The bound of line 118 taken one too small: a suffix ending the string is
\* missed.
HasSuffixOffByOne(s, k) ==
  /\ k < strlen(s) - 3
  /\ CharAt(s, k + 1) = Underscore
  /\ CharAt(s, k + 2) >= Digit0
  /\ CharAt(s, k + 2) <= Digit2

\* Line 118: the condition under which the two characters after the closing
\* brace are taken as the visibility suffix.
HasSuffix(s, k) ==
  /\ k < strlen(s) - 2
  /\ CharAt(s, k + 1) = Underscore
  /\ CharAt(s, k + 2) >= Digit0
  /\ CharAt(s, k + 2) <= Digit2

\* The visibility character stored as a null-terminated string, as tokens are.
VisibilityItemTerminated(visibility) == <<visibility, NulChar>>

\* Line 119: a 1x1 image holding the visibility character.
VisibilityItem(visibility) == <<visibility>>

\* The token copied without a `_V` it ends with.
TokenItemStripped(s, pk, ck) ==
  LET stripped == ck - pk >= 2 /\ s[ck - 1] = Underscore /\ s[ck] \in Digit0..Digit2
  IN  SubSeq(s, pk + 1, IF stripped THEN ck - 2 ELSE ck) \o <<NulChar>>

\* Line 120: ck - pk characters copied from status + pk, then a 0.
TokenItem(s, pk, ck) == SubSeq(s, pk + 1, ck) \o <<NulChar>>

\* The suffix recognised but k left on the closing brace.
CaseRbraceNotConsuming(s, output_visibility, st) ==
  IF ~st.is_inside
    THEN ReturnEmpty(st)
    ELSE LET ck == st.k
             suffix == HasSuffix(s, st.k)
             visibility == IF suffix THEN CharAt(s, st.k + 2) ELSE NulChar
             item == IF output_visibility
                       THEN VisibilityItem(visibility)
                       ELSE TokenItem(s, st.pk, ck)
         IN  [st EXCEPT !.is_inside = FALSE, !.out = Append(st.out, item)]

\* Lines 113-121.
CaseRbrace(s, output_visibility, st) ==
  IF ~st.is_inside
    THEN ReturnEmpty(st)
    ELSE LET ck == st.k
             suffix == HasSuffix(s, st.k)
             visibility == IF suffix THEN CharAt(s, st.k + 2) ELSE NulChar
             k2 == IF suffix THEN st.k + 2 ELSE st.k
             item == IF output_visibility
                       THEN VisibilityItem(visibility)
                       ELSE TokenItem(s, st.pk, ck)
         IN  [st EXCEPT !.is_inside = FALSE, !.k = k2, !.out = Append(st.out, item)]

\* A character outside a segment let through.
CaseDefaultIgnoring(st) == st

\* Lines 122-123.
CaseDefault(st) == IF ~st.is_inside THEN ReturnEmpty(st) ELSE st

\* Lines 103-125: one iteration of the for loop, the ++k included.
LoopBody(s, output_visibility, st) ==
  LET c == CharAt(s, st.k)
  IN  NextK(CASE c = gmic_lbrace -> CaseLbrace(s, st)
              [] c = gmic_rbrace -> CaseRbrace(s, output_visibility, st)
              [] OTHER -> CaseDefault(st))

\* Line 118 read without its test k<len - 2.
LookaheadReadsUnguarded(s, k) ==
  {k + 1} \cup (IF CharAt(s, k + 1) = Underscore THEN {k + 2} ELSE {})

\* Line 118: the positions its condition reads, && evaluated left to right:
\* none unless k<len - 2, then k + 1, then k + 2 once status[k + 1] is '_'.
LookaheadReads(s, k) ==
  IF k < strlen(s) - 2
    THEN {k + 1} \cup (IF CharAt(s, k + 1) = Underscore THEN {k + 2} ELSE {})
    ELSE {}

\* Line 120: memcpy(it, status + pk, it.width() - 1) reads the ck - pk
\* characters from position pk on; ck is k when the brace is met.
CopyReads(st) == st.pk .. (st.k - 1)

\* Lines 104-121: the positions of status one iteration reads.
BodyReads(s, output_visibility, st) ==
  {st.k} \cup
    (IF CharAt(s, st.k) = gmic_rbrace /\ st.is_inside
       THEN LookaheadReads(s, st.k) \cup
            (IF output_visibility THEN {} ELSE CopyReads(st))
       ELSE {})

\* Line 126: what the function returns once the loop is left.
LoopExit(st) == [st EXCEPT !.returned = TRUE]

RECURSIVE ScanFrom(_, _, _)
ScanFrom(s, output_visibility, st) ==
  IF st.returned THEN st
  ELSE IF st.k < strlen(s) THEN ScanFrom(s, output_visibility, LoopBody(s, output_visibility, st))
  ELSE LoopExit(st)

\* Lines 95-127, as a function of its arguments.
status2Items(s, output_visibility) ==
  IF EntryRejects(s) THEN EmptyList ELSE ScanFrom(s, output_visibility, ScanStart).out

---------------------------------------------------------------------------
(* status2StringList and status2Visibilities, lines 129-148.                 *)

\* QString(const char *): the characters before the first 0.
RECURSIVE QStringOf(_)
QStringOf(data) ==
  IF data = << >> \/ Head(data) = NulChar THEN << >>
  ELSE <<Head(data)>> \o QStringOf(Tail(data))

\* AbstractParameter::VisibilityState::Unspecified is declared in
\* FilterParameters/AbstractParameter.h; the specification gives 0 for a
\* segment without suffix.
Unspecified == 0

\* Line 145.
VisibilityOf(c) == IF c # NulChar THEN c - Digit0 ELSE Unspecified

\* Empty tokens left out of the list.
IsNonEmptyText(t) == t # << >>
StringListOfNonEmpty(clist) ==
  SelectSeq([l \in 1..Len(clist) |-> QStringOf(clist[l])], IsNonEmptyText)

\* Lines 133-135: cimglist_for(clist,l) qlist << QString(clist[l].data())
StringListOf(clist) == [l \in 1..Len(clist) |-> QStringOf(clist[l])]

\* Lines 142-147: cimglist_for(clist,l) qlist.push_back(...)
VisibilitiesOf(clist) == [l \in 1..Len(clist) |-> VisibilityOf(clist[l][1])]

\* Lines 129-136.  toLocal8Bit().constData() is never null.
status2StringList(s) == StringListOf(status2Items(s, FALSE))

\* Lines 138-148.
status2Visibilities(s) == VisibilitiesOf(status2Items(s, TRUE))

---------------------------------------------------------------------------
(* The values the opaque collaborators hand in.                              *)

\* Image lists and name lists, by their contents.
ImageListValues == {<< >>, <<"img">>}
NameListValues == {<< >>, <<"name">>}

\* What PersistentMemory::image() may hold: nothing, a stored image (first
\* character gmic_store), a string.  The interpreter leaves its _persistent
\* variable as it was set or changes it.
PersistValues == {<< >>, <<gmic_store, ChA>>, <<ChB>>}

\* The status strings the interpreter leaves: "", "{a}_1".
EngineStatusValues == {<< >>,
                       <<gmic_lbrace, ChA, gmic_rbrace, Underscore, Digit1>>}

\* The texts gmic_exception::what() may give.
Messages == {"", "syntax error"}

\* The values the interpreter writes through the progress pointer.
ProgressValues == {0, 100}

\* commandFromOutputMessageMode(Settings::outputMessageMode()), _command and
\* _arguments, as lists of words; appendWithSpace joins non-empty texts.
OutputModePreamble == <<"v -">>
Command == <<"blur">>
Arguments == <<"3">>
appendWithSpace(text, other) == text \o other

NoInstance == [alive |-> FALSE, persistent |-> << >>, status |-> << >>, sawAbort |-> FALSE]

---------------------------------------------------------------------------
VARIABLES
  \* FilterThread's fields
  gmicAbort, failed, gmicProgress, errorMessage, gmicStatus,
  images, imageNames, persistentMemoryOutput, startTime,
  \* run(): its position, its locals
  pc, fullCommandLine, gmicInstance,
  \* the collaborators: PersistentMemory::image(), the Logger's records
  persistentImage, log,
  \* history: what the interpreter call of this run did, how often it was
  \* called, how many runs were started, whether abortGmic() was called since
  \* the start, the last value progress() gave the GUI (none at first)
  outcome, excMessage, calls, runs, abortAfterStart, seenProgress,
  \* the decoder: its arguments, its position, its locals, the wrapper's list
  status, output_visibility, dpc, scan, qlist,
  \* history: the positions of status the loop of status2Items has read
  reads

threadVars == <<gmicAbort, failed, gmicProgress, errorMessage, gmicStatus,
                images, imageNames, persistentMemoryOutput, startTime,
                pc, fullCommandLine, gmicInstance, persistentImage, log,
                outcome, excMessage, calls, runs, abortAfterStart, seenProgress>>
decoderVars == <<status, output_visibility, dpc, scan, qlist, reads>>
vars == <<threadVars, decoderVars>>

\* The positions of run() at which the thread is running.
RunningPcs == {"l204", "l205", "l206", "l209", "l212", "l213", "l214", "l215",
               "l216", "l223", "l225", "engine", "l226", "l227",
               "l229", "l230", "l231", "l233", "l234", "l236"}

---------------------------------------------------------------------------
(* The constructor, lines 40-52.                                             *)

\* The value of line 213 given at construction.
ProgressNotStarted == 0 - 1

\* Line 48.
InitialProgress == 0

Constructed ==
  /\ gmicAbort = FALSE
  /\ failed = FALSE
  /\ gmicProgress = InitialProgress
  /\ errorMessage = ""
  /\ gmicStatus = << >>
  /\ images = << >>
  /\ imageNames = << >>
  /\ persistentMemoryOutput = << >>
  /\ startTime = FALSE
  /\ pc = "idle"
  /\ fullCommandLine = << >>
  /\ gmicInstance = NoInstance
  /\ log = << >>
  /\ outcome = "none"
  /\ excMessage = ""
  /\ calls = 0
  /\ runs = 0
  /\ abortAfterStart = FALSE
  /\ seenProgress = << >>

DecoderIdle ==
  /\ status = << >>
  /\ output_visibility = FALSE
  /\ dpc = "unused"
  /\ scan = ScanStart
  /\ qlist = << >>
  /\ reads = {}

Init ==
  /\ Constructed
  /\ persistentImage \in PersistValues
  /\ DecoderIdle

---------------------------------------------------------------------------
(* What the GUI thread calls.                                                *)

\* QThread::start(): run() begins on the worker thread.
Start ==
  /\ pc \in {"idle", "finished"}
  /\ runs < MaxRuns
  /\ pc' = "l204"
  /\ runs' = runs + 1
  /\ outcome' = "none"
  /\ calls' = 0
  /\ abortAfterStart' = FALSE
  /\ UNCHANGED <<gmicAbort, failed, gmicProgress, errorMessage, gmicStatus,
                 images, imageNames, persistentMemoryOutput, startTime,
                 fullCommandLine, gmicInstance, persistentImage, log,
                 excMessage, seenProgress, decoderVars>>

\* An abort request that also marks the run failed.
abortGmicFailing ==
  /\ gmicAbort' = TRUE
  /\ failed' = TRUE
  /\ abortAfterStart' = (abortAfterStart \/ pc \in RunningPcs)
  /\ UNCHANGED <<gmicProgress, errorMessage, gmicStatus,
                 images, imageNames, persistentMemoryOutput, startTime,
                 pc, fullCommandLine, gmicInstance, persistentImage, log,
                 outcome, excMessage, calls, runs, seenProgress, decoderVars>>

\* Lines 197-200.
abortGmic ==
  /\ gmicAbort' = TRUE
  /\ abortAfterStart' = (abortAfterStart \/ pc \in RunningPcs)
  /\ UNCHANGED <<failed, gmicProgress, errorMessage, gmicStatus,
                 images, imageNames, persistentMemoryOutput, startTime,
                 pc, fullCommandLine, gmicInstance, persistentImage, log,
                 outcome, excMessage, calls, runs, seenProgress, decoderVars>>

\* Lines 71-74 and 66-69: the caller hands an image list in (or swaps one in)
\* while no run is under way.
setInputImages ==
  /\ pc \in {"idle", "finished"}
  /\ images' \in ImageListValues
  /\ UNCHANGED <<gmicAbort, failed, gmicProgress, errorMessage, gmicStatus,
                 imageNames, persistentMemoryOutput, startTime,
                 pc, fullCommandLine, gmicInstance, persistentImage, log,
                 outcome, excMessage, calls, runs, abortAfterStart, seenProgress,
                 decoderVars>>

\* Lines 61-64.
setImageNames ==
  /\ pc \in {"idle", "finished"}
  /\ imageNames' \in NameListValues
  /\ UNCHANGED <<gmicAbort, failed, gmicProgress, errorMessage, gmicStatus,
                 images, persistentMemoryOutput, startTime,
                 pc, fullCommandLine, gmicInstance, persistentImage, log,
                 outcome, excMessage, calls, runs, abortAfterStart, seenProgress,
                 decoderVars>>

\* Lines 180-183.
progress ==
  /\ seenProgress' = <<gmicProgress>>
  /\ UNCHANGED <<gmicAbort, failed, gmicProgress, errorMessage, gmicStatus,
                 images, imageNames, persistentMemoryOutput, startTime,
                 pc, fullCommandLine, gmicInstance, persistentImage, log,
                 outcome, excMessage, calls, runs, abortAfterStart, decoderVars>>

---------------------------------------------------------------------------
(* run(), lines 202-236, one step per statement; the interpreter call of     *)
(* line 225 is the steps taken at "engine".  Only gmic::run is taken to      *)
(* throw: the constructor and the variable accessors around it are not.      *)

\* Line 204.
RunStartTimer ==
  /\ pc = "l204"
  /\ startTime' = TRUE
  /\ pc' = "l205"
  /\ UNCHANGED <<gmicAbort, failed, gmicProgress, errorMessage, gmicStatus,
                 images, imageNames, persistentMemoryOutput, fullCommandLine,
                 gmicInstance, persistentImage, log, outcome, excMessage,
                 calls, runs, abortAfterStart, seenProgress, decoderVars>>

\* Line 205.
RunClearError ==
  /\ pc = "l205"
  /\ errorMessage' = ""
  /\ pc' = "l206"
  /\ UNCHANGED <<gmicAbort, failed, gmicProgress, gmicStatus, images,
                 imageNames, persistentMemoryOutput, startTime,
                 fullCommandLine, gmicInstance, persistentImage, log,
                 outcome, excMessage, calls, runs, abortAfterStart,
                 seenProgress, decoderVars>>

\* Line 206 left out.
RunClearFailedSkipped ==
  /\ pc = "l206"
  /\ pc' = "l209"
  /\ UNCHANGED <<gmicAbort, failed, gmicProgress, errorMessage, gmicStatus,
                 images, imageNames, persistentMemoryOutput, startTime,
                 fullCommandLine, gmicInstance, persistentImage, log,
                 outcome, excMessage, calls, runs, abortAfterStart,
                 seenProgress, decoderVars>>

\* Line 206.
RunClearFailed ==
  /\ pc = "l206"
  /\ failed' = FALSE
  /\ pc' = "l209"
  /\ UNCHANGED <<gmicAbort, gmicProgress, errorMessage, gmicStatus, images,
                 imageNames, persistentMemoryOutput, startTime,
                 fullCommandLine, gmicInstance, persistentImage, log,
                 outcome, excMessage, calls, runs, abortAfterStart,
                 seenProgress, decoderVars>>

\* Lines 207-211.
RunAssembleCommand ==
  /\ pc = "l209"
  /\ fullCommandLine' = appendWithSpace(appendWithSpace(OutputModePreamble, Command), Arguments)
  /\ pc' = "l212"
  /\ UNCHANGED <<gmicAbort, failed, gmicProgress, errorMessage, gmicStatus,
                 images, imageNames, persistentMemoryOutput, startTime,
                 gmicInstance, persistentImage, log, outcome, excMessage,
                 calls, runs, abortAfterStart, seenProgress, decoderVars>>

\* Line 212.
RunResetAbort ==
  /\ pc = "l212"
  /\ gmicAbort' = FALSE
  /\ pc' = "l213"
  /\ UNCHANGED <<failed, gmicProgress, errorMessage, gmicStatus, images,
                 imageNames, persistentMemoryOutput, startTime,
                 fullCommandLine, gmicInstance, persistentImage, log,
                 outcome, excMessage, calls, runs, abortAfterStart,
                 seenProgress, decoderVars>>

\* Line 213.
RunResetProgress ==
  /\ pc = "l213"
  /\ gmicProgress' = 0 - 1
  /\ pc' = "l214"
  /\ UNCHANGED <<gmicAbort, failed, errorMessage, gmicStatus, images,
                 imageNames, persistentMemoryOutput, startTime,
                 fullCommandLine, gmicInstance, persistentImage, log,
                 outcome, excMessage, calls, runs, abortAfterStart,
                 seenProgress, decoderVars>>

\* Line 214 left out.
RunLogCommandSkipped ==
  /\ pc = "l214"
  /\ pc' = "l215"
  /\ UNCHANGED <<gmicAbort, failed, gmicProgress, errorMessage, gmicStatus,
                 images, imageNames, persistentMemoryOutput, startTime,
                 fullCommandLine, gmicInstance, persistentImage, log, outcome,
                 excMessage, calls, runs, abortAfterStart, seenProgress,
                 decoderVars>>

\* Line 214.
RunLogCommand ==
  /\ pc = "l214"
  /\ log' = Append(log, [kind |-> "command", command |-> fullCommandLine, message |-> ""])
  /\ pc' = "l215"
  /\ UNCHANGED <<gmicAbort, failed, gmicProgress, errorMessage, gmicStatus,
                 images, imageNames, persistentMemoryOutput, startTime,
                 fullCommandLine, gmicInstance, persistentImage, outcome,
                 excMessage, calls, runs, abortAfterStart, seenProgress,
                 decoderVars>>

\* Line 215: the interpreter is given &_gmicProgress and &_gmicAbort.
RunConstructEngine ==
  /\ pc = "l215"
  /\ gmicInstance' = [alive |-> TRUE, persistent |-> << >>, status |-> << >>, sawAbort |-> FALSE]
  /\ pc' = "l216"
  /\ UNCHANGED <<gmicAbort, failed, gmicProgress, errorMessage, gmicStatus,
                 images, imageNames, persistentMemoryOutput, startTime,
                 fullCommandLine, persistentImage, log, outcome, excMessage,
                 calls, runs, abortAfterStart, seenProgress, decoderVars>>

\* Line 216, PersistentMemory::image() empty.
RunNoPersistent ==
  /\ pc = "l216"
  /\ persistentImage = << >>
  /\ pc' = "l223"
  /\ UNCHANGED <<gmicAbort, failed, gmicProgress, errorMessage, gmicStatus,
                 images, imageNames, persistentMemoryOutput, startTime,
                 fullCommandLine, gmicInstance, persistentImage, log,
                 outcome, excMessage, calls, runs, abortAfterStart,
                 seenProgress, decoderVars>>

\* Lines 216-218.
RunSetPersistentStored ==
  /\ pc = "l216"
  /\ persistentImage # << >> /\ Head(persistentImage) = gmic_store
  /\ gmicInstance' = [gmicInstance EXCEPT !.persistent = persistentImage]
  /\ pc' = "l223"
  /\ UNCHANGED <<gmicAbort, failed, gmicProgress, errorMessage, gmicStatus,
                 images, imageNames, persistentMemoryOutput, startTime,
                 fullCommandLine, persistentImage, log, outcome, excMessage,
                 calls, runs, abortAfterStart, seenProgress, decoderVars>>

\* Lines 216-220.
RunSetPersistentAssigned ==
  /\ pc = "l216"
  /\ persistentImage # << >> /\ Head(persistentImage) # gmic_store
  /\ gmicInstance' = [gmicInstance EXCEPT !.persistent = persistentImage]
  /\ pc' = "l223"
  /\ UNCHANGED <<gmicAbort, failed, gmicProgress, errorMessage, gmicStatus,
                 images, imageNames, persistentMemoryOutput, startTime,
                 fullCommandLine, persistentImage, log, outcome, excMessage,
                 calls, runs, abortAfterStart, seenProgress, decoderVars>>

\* Lines 223-224: _host and _tk, which nothing here reads back.
RunSetHostVariables ==
  /\ pc = "l223"
  /\ pc' = "l225"
  /\ UNCHANGED <<gmicAbort, failed, gmicProgress, errorMessage, gmicStatus,
                 images, imageNames, persistentMemoryOutput, startTime,
                 fullCommandLine, gmicInstance, persistentImage, log,
                 outcome, excMessage, calls, runs, abortAfterStart,
                 seenProgress, decoderVars>>

\* The status string taken from the interpreter before it has run.
RunInvokeStoringStatus ==
  /\ pc = "l225"
  /\ calls' = calls + 1
  /\ gmicStatus' = gmicInstance.status
  /\ pc' = "engine"
  /\ UNCHANGED <<gmicAbort, failed, gmicProgress, errorMessage,
                 images, imageNames, persistentMemoryOutput, startTime,
                 fullCommandLine, gmicInstance, persistentImage, log,
                 outcome, excMessage, runs, abortAfterStart, seenProgress,
                 decoderVars>>

\* Line 225: gmicInstance.run(...) is entered.
RunInvoke ==
  /\ pc = "l225"
  /\ calls' = calls + 1
  /\ pc' = "engine"
  /\ UNCHANGED <<gmicAbort, failed, gmicProgress, errorMessage, gmicStatus,
                 images, imageNames, persistentMemoryOutput, startTime,
                 fullCommandLine, gmicInstance, persistentImage, log,
                 outcome, excMessage, runs, abortAfterStart, seenProgress,
                 decoderVars>>

\* The interpreter writes *progress.
EngineProgress ==
  /\ pc = "engine"
  /\ gmicProgress' \in ProgressValues
  /\ pc' = pc
  /\ UNCHANGED <<gmicAbort, failed, errorMessage, gmicStatus, images,
                 imageNames, persistentMemoryOutput, startTime,
                 fullCommandLine, gmicInstance, persistentImage, log,
                 outcome, excMessage, calls, runs, abortAfterStart,
                 seenProgress, decoderVars>>

\* The interpreter reads *is_abort.
EnginePollAbort ==
  /\ pc = "engine"
  /\ gmicInstance' = [gmicInstance EXCEPT !.sawAbort = gmicAbort]
  /\ pc' = pc
  /\ UNCHANGED <<gmicAbort, failed, gmicProgress, errorMessage, gmicStatus,
                 images, imageNames, persistentMemoryOutput, startTime,
                 fullCommandLine, persistentImage, log, outcome, excMessage,
                 calls, runs, abortAfterStart, seenProgress, decoderVars>>

\* Line 225 returns: images, names, status and _persistent are the interpreter's.
EngineReturn ==
  /\ pc = "engine"
  /\ images' \in ImageListValues
  /\ imageNames' \in NameListValues
  /\ \E st \in EngineStatusValues, pm \in {gmicInstance.persistent, <<ChB, ChB>>} :
       gmicInstance' = [gmicInstance EXCEPT !.status = st, !.persistent = pm]
  /\ outcome' = "returned"
  /\ pc' = "l226"
  /\ UNCHANGED <<gmicAbort, failed, gmicProgress, errorMessage, gmicStatus,
                 persistentMemoryOutput, startTime, fullCommandLine,
                 persistentImage, log, excMessage, calls, runs,
                 abortAfterStart, seenProgress, decoderVars>>

\* Line 225 throws gmic_exception: the lists are as the interpreter left them,
\* gmicInstance is destroyed by the unwinding.
EngineThrow ==
  /\ pc = "engine"
  /\ images' \in ImageListValues
  /\ imageNames' \in NameListValues
  /\ excMessage' \in Messages
  /\ gmicInstance' = NoInstance
  /\ outcome' = "threw"
  /\ pc' = "l229"
  /\ UNCHANGED <<gmicAbort, failed, gmicProgress, errorMessage, gmicStatus,
                 persistentMemoryOutput, startTime, fullCommandLine,
                 persistentImage, log, calls, runs, abortAfterStart,
                 seenProgress, decoderVars>>

\* Line 226.
RunStoreStatus ==
  /\ pc = "l226"
  /\ gmicStatus' = gmicInstance.status
  /\ pc' = "l227"
  /\ UNCHANGED <<gmicAbort, failed, gmicProgress, errorMessage, images,
                 imageNames, persistentMemoryOutput, startTime,
                 fullCommandLine, gmicInstance, persistentImage, log,
                 outcome, excMessage, calls, runs, abortAfterStart,
                 seenProgress, decoderVars>>

\* Line 227.
RunMovePersistent ==
  /\ pc = "l227"
  /\ persistentMemoryOutput' = gmicInstance.persistent
  /\ pc' = "l236"
  /\ UNCHANGED <<gmicAbort, failed, gmicProgress, errorMessage, gmicStatus,
                 images, imageNames, startTime, fullCommandLine,
                 gmicInstance, persistentImage, log, outcome, excMessage,
                 calls, runs, abortAfterStart, seenProgress, decoderVars>>

\* The failed flag written first in the catch block, not last.
CatchFailedFirst ==
  /\ pc = "l229"
  /\ failed' = TRUE
  /\ images' = << >>
  /\ pc' = "l230"
  /\ UNCHANGED <<gmicAbort, gmicProgress, errorMessage, gmicStatus,
                 imageNames, persistentMemoryOutput, startTime,
                 fullCommandLine, gmicInstance, persistentImage, log,
                 outcome, excMessage, calls, runs, abortAfterStart,
                 seenProgress, decoderVars>>

\* Line 229.
CatchClearImages ==
  /\ pc = "l229"
  /\ images' = << >>
  /\ pc' = "l230"
  /\ UNCHANGED <<gmicAbort, failed, gmicProgress, errorMessage, gmicStatus,
                 imageNames, persistentMemoryOutput, startTime,
                 fullCommandLine, gmicInstance, persistentImage, log,
                 outcome, excMessage, calls, runs, abortAfterStart,
                 seenProgress, decoderVars>>

\* Line 230 left out.
CatchClearNamesSkipped ==
  /\ pc = "l230"
  /\ pc' = "l231"
  /\ UNCHANGED <<gmicAbort, failed, gmicProgress, errorMessage, gmicStatus,
                 images, imageNames, persistentMemoryOutput, startTime,
                 fullCommandLine, gmicInstance, persistentImage, log,
                 outcome, excMessage, calls, runs, abortAfterStart,
                 seenProgress, decoderVars>>

\* Line 230.
CatchClearNames ==
  /\ pc = "l230"
  /\ imageNames' = << >>
  /\ pc' = "l231"
  /\ UNCHANGED <<gmicAbort, failed, gmicProgress, errorMessage, gmicStatus,
                 images, persistentMemoryOutput, startTime, fullCommandLine,
                 gmicInstance, persistentImage, log, outcome, excMessage,
                 calls, runs, abortAfterStart, seenProgress, decoderVars>>

\* Lines 231-232.
CatchSetMessage ==
  /\ pc = "l231"
  /\ errorMessage' = excMessage
  /\ pc' = "l233"
  /\ UNCHANGED <<gmicAbort, failed, gmicProgress, gmicStatus, images,
                 imageNames, persistentMemoryOutput, startTime,
                 fullCommandLine, gmicInstance, persistentImage, log,
                 outcome, excMessage, calls, runs, abortAfterStart,
                 seenProgress, decoderVars>>

\* Line 233.
CatchLogError ==
  /\ pc = "l233"
  /\ log' = Append(log, [kind |-> "error", command |-> fullCommandLine, message |-> excMessage])
  /\ pc' = "l234"
  /\ UNCHANGED <<gmicAbort, failed, gmicProgress, errorMessage, gmicStatus,
                 images, imageNames, persistentMemoryOutput, startTime,
                 fullCommandLine, gmicInstance, persistentImage, outcome,
                 excMessage, calls, runs, abortAfterStart, seenProgress,
                 decoderVars>>

\* The interpreter called once more after an exception.
CatchRetry ==
  /\ pc = "l234"
  /\ pc' = "l225"
  /\ UNCHANGED <<gmicAbort, failed, gmicProgress, errorMessage, gmicStatus,
                 images, imageNames, persistentMemoryOutput, startTime,
                 fullCommandLine, gmicInstance, persistentImage, log,
                 outcome, excMessage, calls, runs, abortAfterStart,
                 seenProgress, decoderVars>>

\* Line 234.
CatchSetFailed ==
  /\ pc = "l234"
  /\ failed' = TRUE
  /\ pc' = "l236"
  /\ UNCHANGED <<gmicAbort, gmicProgress, errorMessage, gmicStatus, images,
                 imageNames, persistentMemoryOutput, startTime,
                 fullCommandLine, gmicInstance, persistentImage, log,
                 outcome, excMessage, calls, runs, abortAfterStart,
                 seenProgress, decoderVars>>

\* Line 236: run() returns, its locals are gone.
RunReturn ==
  /\ pc = "l236"
  /\ gmicInstance' = NoInstance
  /\ fullCommandLine' = << >>
  /\ pc' = "finished"
  /\ UNCHANGED <<gmicAbort, failed, gmicProgress, errorMessage, gmicStatus,
                 images, imageNames, persistentMemoryOutput, startTime,
                 persistentImage, log, outcome, excMessage, calls, runs,
                 abortAfterStart, seenProgress, decoderVars>>

\* The steps of run() that are the worker thread's own.
WorkerStep ==
  \/ RunStartTimer
  \/ RunClearError
  \/ RunClearFailed
  \/ RunAssembleCommand
  \/ RunResetAbort
  \/ RunResetProgress
  \/ RunLogCommand
  \/ RunConstructEngine
  \/ RunNoPersistent
  \/ RunSetPersistentStored
  \/ RunSetPersistentAssigned
  \/ RunSetHostVariables
  \/ RunInvoke
  \/ RunStoreStatus
  \/ RunMovePersistent
  \/ CatchClearImages
  \/ CatchClearNames
  \/ CatchSetMessage
  \/ CatchLogError
  \/ CatchSetFailed
  \/ RunReturn

\* The interpreter call coming to its end.
EngineEnds == EngineReturn \/ EngineThrow

Next ==
  \/ Start
  \/ abortGmic
  \/ setInputImages
  \/ setImageNames
  \/ progress
  \/ RunStartTimer
  \/ RunClearError
  \/ RunClearFailed
  \/ RunAssembleCommand
  \/ RunResetAbort
  \/ RunResetProgress
  \/ RunLogCommand
  \/ RunConstructEngine
  \/ RunNoPersistent
  \/ RunSetPersistentStored
  \/ RunSetPersistentAssigned
  \/ RunSetHostVariables
  \/ RunInvoke
  \/ EngineProgress
  \/ EnginePollAbort
  \/ EngineReturn
  \/ EngineThrow
  \/ RunStoreStatus
  \/ RunMovePersistent
  \/ CatchClearImages
  \/ CatchClearNames
  \/ CatchSetMessage
  \/ CatchLogError
  \/ CatchSetFailed
  \/ RunReturn

Spec == Init /\ [][Next]_vars

\* The worker thread is scheduled, and the interpreter call returns or throws.
FairSpec == Spec /\ WF_vars(WorkerStep) /\ WF_vars(EngineEnds)

---------------------------------------------------------------------------
(* The accessors that decode the status string, lines 150-158.  (The field   *)
(* _gmicStatus is the variable gmicStatus.)                                  *)

\* Lines 150-153: FilterThread::gmicStatus().
gmicStatusList == status2StringList(gmicStatus)

\* Lines 155-158.
parametersVisibilityStates == status2Visibilities(gmicStatus)

---------------------------------------------------------------------------
(* The decoder applied to a status string: status2Items step by step, then   *)
(* the conversion status2StringList or status2Visibilities makes of its      *)
(* result.                                                                   *)

DecodeInit ==
  /\ Constructed
  /\ persistentImage = << >>
  /\ status \in StatusInputs
  /\ output_visibility \in BOOLEAN
  /\ dpc = "call"
  /\ scan = ScanStart
  /\ qlist = << >>
  /\ reads = {}

\* Lines 95-101.
Status2ItemsEnter ==
  /\ dpc = "call"
  /\ IF EntryRejects(status)
       THEN scan' = ReturnEmpty(ScanStart) /\ dpc' = "ret"
       ELSE scan' = ScanStart /\ dpc' = "loop"
  /\ UNCHANGED <<status, output_visibility, qlist, reads, threadVars>>

\* Lines 103-125, one iteration.
ScanStep ==
  /\ dpc = "loop"
  /\ scan.k < strlen(status)
  /\ scan' = LoopBody(status, output_visibility, scan)
  /\ reads' = reads \cup BodyReads(status, output_visibility, scan)
  /\ dpc' = IF scan'.returned THEN "ret" ELSE "loop"
  /\ UNCHANGED <<status, output_visibility, qlist, threadVars>>

\* Line 126.
ScanExit ==
  /\ dpc = "loop"
  /\ ~(scan.k < strlen(status))
  /\ scan' = LoopExit(scan)
  /\ dpc' = "ret"
  /\ UNCHANGED <<status, output_visibility, qlist, reads, threadVars>>

\* Lines 133-135.
ToStringList ==
  /\ dpc = "ret"
  /\ ~output_visibility
  /\ qlist' = StringListOf(scan.out)
  /\ dpc' = "done"
  /\ UNCHANGED <<status, output_visibility, scan, reads, threadVars>>

\* Lines 142-147.
ToVisibilities ==
  /\ dpc = "ret"
  /\ output_visibility
  /\ qlist' = VisibilitiesOf(scan.out)
  /\ dpc' = "done"
  /\ UNCHANGED <<status, output_visibility, scan, reads, threadVars>>

DecodeNext ==
  \/ Status2ItemsEnter
  \/ ScanStep
  \/ ScanExit
  \/ ToStringList
  \/ ToVisibilities

DecodeSpec == DecodeInit /\ [][DecodeNext]_vars

---------------------------------------------------------------------------
(* The status format as a grammar, written without the decoder: a segment is *)
(* an opening brace, a token free of closing braces and a closing brace; a   *)
(* suffix is '_' and a digit '0'..'2' right after the closing brace.         *)

\* The position of the first closing brace of s, 0 when it has none.
FirstRbrace(s) ==
  IF \E i \in 1..Len(s) : s[i] = gmic_rbrace
    THEN CHOOSE i \in 1..Len(s) :
           /\ s[i] = gmic_rbrace
           /\ \A j \in 1..(i - 1) : s[j] # gmic_rbrace
    ELSE 0

\* What follows the first closing brace of s.
AfterFirstSegment(s) == SubSeq(s, FirstRbrace(s) + 1, Len(s))

\* s begins with a suffix.
StartsWithSuffix(s) ==
  /\ Len(s) >= 2
  /\ s[1] = Underscore
  /\ s[2] \in Digit0..Digit2

\* What follows the first segment of s and the suffix behind it, if any.
AfterFirstSegmentAndSuffix(s) ==
  LET rest == AfterFirstSegment(s)
  IN  IF StartsWithSuffix(rest) THEN SubSeq(rest, 3, Len(rest)) ELSE rest

\* s is {t1}{t2}...{tn}, no ti holding a closing brace.
RECURSIVE WellFormed(_)
WellFormed(s) ==
  \/ s = << >>
  \/ /\ s[1] = gmic_lbrace
     /\ FirstRbrace(s) # 0
     /\ WellFormed(AfterFirstSegment(s))

\* The tokens t1..tn of a well-formed s.
RECURSIVE TokensOf(_)
TokensOf(s) ==
  IF s = << >> THEN << >>
  ELSE <<SubSeq(s, 2, FirstRbrace(s) - 1)>> \o TokensOf(AfterFirstSegment(s))

\* s is a concatenation of segments, each with or without a suffix behind it.
RECURSIVE Segmented(_)
Segmented(s) ==
  \/ s = << >>
  \/ /\ s[1] = gmic_lbrace
     /\ FirstRbrace(s) # 0
     /\ Segmented(AfterFirstSegmentAndSuffix(s))

\* For a segmented s, the suffix digit behind each segment, NulChar for none.
RECURSIVE SuffixesOf(_)
SuffixesOf(s) ==
  IF s = << >> THEN << >>
  ELSE LET rest == AfterFirstSegment(s)
       IN  <<IF StartsWithSuffix(rest) THEN rest[2] ELSE NulChar>>
             \o SuffixesOf(AfterFirstSegmentAndSuffix(s))

\* After zero or more segments (with their suffixes) s goes on with a
\* character that is no opening brace: a closing brace or any other character
\* outside a segment.
RECURSIVE MeetsStray(_)
MeetsStray(s) ==
  /\ s # << >>
  /\ \/ s[1] # gmic_lbrace
     \/ /\ FirstRbrace(s) # 0
        /\ MeetsStray(AfterFirstSegmentAndSuffix(s))

\* After zero or more segments (with their suffixes) s opens a segment that
\* is never closed.
RECURSIVE EndsUnterminated(_)
EndsUnterminated(s) ==
  /\ s # << >>
  /\ s[1] = gmic_lbrace
  /\ \/ FirstRbrace(s) = 0
     \/ EndsUnterminated(AfterFirstSegmentAndSuffix(s))

\* The token of a segment ends with a suffix written inside the braces.
EndsWithSuffix(t) ==
  /\ Len(t) >= 2
  /\ t[Len(t) - 1] = Underscore
  /\ t[Len(t)] \in Digit0..Digit2

---------------------------------------------------------------------------
(* The claims about run().                                                   *)

\* C1: when the interpreter call has thrown, then at the return of run()
\* failed() is true, errorMessage() is the exception's text, and the image
\* list and the name list are empty.
C1_ThrowLeavesFailure ==
  (pc = "l236" /\ outcome = "threw") =>
    /\ failed
    /\ errorMessage = excMessage
    /\ images = << >>
    /\ imageNames = << >>

C1_Witness ==
  /\ pc = "l236"
  /\ outcome = "threw"
  /\ failed
  /\ errorMessage = "syntax error"

\* C2: when the interpreter call has returned, then at the return of run()
\* failed() is false, errorMessage() is empty whatever an earlier run left,
\* the status string is the interpreter's and the persistent-memory output is
\* the interpreter's _persistent variable.
C2_ReturnLeavesSuccess ==
  (pc = "l236" /\ outcome = "returned") =>
    /\ ~failed
    /\ errorMessage = ""
    /\ gmicStatus = gmicInstance.status
    /\ persistentMemoryOutput = gmicInstance.persistent

\* A second run that succeeds after a first one that failed with a message.
C2_Witness ==
  /\ pc = "l236"
  /\ outcome = "returned"
  /\ gmicStatus # << >>
  /\ persistentMemoryOutput # << >>
  /\ \E i \in DOMAIN log : log[i].kind = "error" /\ log[i].message # ""

\* C8 as claimed: once abortGmic() has been called after the start, the abort
\* flag stays true for as long as the thread is running.
C8_AbortNeverCleared ==
  (abortAfterStart /\ pc \in RunningPcs) => gmicAbort

\* At the return of run() and after it: one interpreter call was made, and
\* the run is a success or a failure, not both.
C9_Terminal ==
  pc \in {"l236", "finished"} =>
    /\ calls = 1
    /\ \/ outcome = "returned" /\ ~failed
       \/ outcome = "threw" /\ failed

\* No step taken once run() has returned changes any of the results (the
\* next one to do so belongs to a run started anew).
C9_Final ==
  pc = "finished" => UNCHANGED <<failed, errorMessage, gmicStatus>>

\* C9: a run ends in exactly one of success and failure, after exactly one
\* interpreter call; once run() has returned, failed(), errorMessage() and
\* the status string change no more; and, the interpreter call returning or
\* throwing, every run that is started comes to its return.
C9_Lifecycle ==
  /\ []C9_Terminal
  /\ [][C9_Final]_vars
  /\ (pc \in RunningPcs) ~> (pc = "finished")

C9_Witness ==
  /\ pc = "finished"
  /\ outcome = "threw"
  /\ failed
  /\ runs = 2

\* C10 as claimed: in the idle state progress() returns -1.
C10_IdleProgressMinusOne ==
  pc = "idle" => (gmicProgress = 0 - 1 /\ seenProgress \in {<< >>, <<0 - 1>>})

\* C10, amended: in the idle state progress() returns 0, the value the
\* constructor gives; -1 is what run() writes at line 213, and it stays until
\* the interpreter is called.
C10_IdleProgressZero ==
  /\ pc = "idle" => (gmicProgress = 0 /\ seenProgress \in {<< >>, <<0>>})
  /\ pc \in {"l214", "l215", "l216", "l223", "l225"} => gmicProgress = 0 - 1

C10_Witness ==
  /\ pc = "idle"
  /\ seenProgress = <<0>>

---------------------------------------------------------------------------
(* The claims about the decoder.                                             *)

C4_UnterminatedIsEmpty ==
  (dpc \in {"ret", "done"} /\ EndsUnterminated(status)) =>
    /\ scan.out = << >>
    /\ dpc = "done" => qlist = << >>

\* C5: an input in which, after zero or more segments, a closing brace or
\* another character stands outside a segment decodes to the empty list in
\* both modes; "{a}x", "{a}}" and "{a}_3" do.
C5_StrayIsEmpty ==
  /\ (dpc \in {"ret", "done"} /\ MeetsStray(status)) =>
       /\ scan.out = << >>
       /\ dpc = "done" => qlist = << >>
  /\ MeetsStray(ExAStray) /\ MeetsStray(ExAClose) /\ MeetsStray(ExABadSuffix)

C5_Witness ==
  /\ dpc = "done"
  /\ status = ExABadSuffix
  /\ qlist = << >>

\* C6: in token mode a well-formed input {t1}...{tn} decodes to exactly
\* t1..tn in order, nothing stripped; "{foo}{bar_1}" gives "foo", "bar_1".
C6_TokensExact ==
  (dpc = "done" /\ ~output_visibility /\ WellFormed(status)) =>
    /\ qlist = TokensOf(status)
    /\ status = ExFooBar1 =>
         qlist = << <<ChF, ChO, ChO>>, <<ChB, ChA, ChR, Underscore, Digit1>> >>

C6_Witness ==
  /\ dpc = "done"
  /\ ~output_visibility
  /\ status = ExFooBar1
  /\ Len(qlist) = 2

\* C7: an input whose first character is no opening brace, the empty string
\* and the null pointer included, decodes to the empty list in both modes.
C7_NoLeadingBraceIsEmpty ==
  (/\ dpc \in {"ret", "done"}
   /\ \/ status = NullPtr
      \/ status = << >>
      \/ status[1] # gmic_lbrace) =>
    /\ scan.out = << >>
    /\ dpc = "done" => qlist = << >>

C7_Witness ==
  /\ dpc = "done"
  /\ status = ExFooClose
  /\ qlist = << >>

\* C11: in visibility mode the decoder emits one single-character entry per
\* extracted segment, in segment order, and the entry of a segment without
\* suffix is the character 0.
C11_OneCharPerSegment ==
  output_visibility =>
    /\ \A i \in 1..Len(scan.out) :
         /\ Len(scan.out[i]) = 1
         /\ scan.out[i][1] \in ({NulChar} \cup (Digit0..Digit2))
    /\ (dpc \in {"ret", "done"} /\ Segmented(status)) =>
         /\ Len(scan.out) = Len(SuffixesOf(status))
         /\ \A i \in 1..Len(scan.out) :
              /\ scan.out[i][1] = SuffixesOf(status)[i]
              /\ SuffixesOf(status)[i] = NulChar => scan.out[i] = <<NulChar>>

C11_Witness ==
  /\ dpc = "ret"
  /\ output_visibility
  /\ status = ExFooBarSuffix
  /\ scan.out = << <<NulChar>>, <<Digit1>> >>

---------------------------------------------------------------------------
(* More claims about run().                                                  *)

\* The positions of run() behind lines 205-206, where what an earlier run
\* left in _errorMessage and _failed is gone.
ClearedPcs == RunningPcs \ {"l204", "l205", "l206"}

\* C12: calling abortGmic() before the interpreter is invoked does not by
\* itself fail the run: failed() is true only if the interpreter call threw,
\* and errorMessage() is empty otherwise.
C12_AbortDoesNotFail ==
  /\ pc = "idle" => (~failed /\ errorMessage = "")
  /\ (pc \in ClearedPcs \cup {"finished"} /\ outcome # "threw") =>
       (~failed /\ errorMessage = "")

\* abortGmic() was called after the start and before line 212 (which erased
\* it), and the run came to a normal end.
C12_Witness ==
  /\ pc = "l236"
  /\ outcome = "returned"
  /\ abortAfterStart
  /\ ~gmicAbort
  /\ ~failed

\* The places of the command records in the log.
CommandRecords == {i \in DOMAIN log : log[i].kind = "command"}

\* The positions of run() before the command is logged.
BeforeLogPcs == {"l204", "l205", "l206", "l209", "l212", "l213", "l214"}

\* C13: in every run the record of the full command line is logged exactly
\* once, and before the interpreter is invoked: there is no invocation without
\* that record before it.
C13_LoggedBeforeInvocation ==
  /\ pc = "idle" => CommandRecords = {}
  /\ pc \in BeforeLogPcs => (Cardinality(CommandRecords) = runs - 1 /\ calls = 0)
  /\ (pc \in (RunningPcs \ BeforeLogPcs) \cup {"finished"} \/ calls > 0) =>
       /\ Cardinality(CommandRecords) = runs
       /\ \E i \in CommandRecords :
            /\ log[i].command = OutputModePreamble \o Command \o Arguments
            /\ \A j \in DOMAIN log : j > i => log[j].kind = "error"

C13_Witness ==
  /\ pc = "engine"
  /\ runs = 2
  /\ calls = 1
  /\ Cardinality(CommandRecords) = 2

C16_Step ==
  /\ gmicStatus' # gmicStatus => (pc = "l226" /\ outcome = "returned")
  /\ persistentMemoryOutput' # persistentMemoryOutput =>
       (pc = "l227" /\ outcome = "returned")
  /\ outcome' # "returned" => UNCHANGED <<gmicStatus, persistentMemoryOutput>>

\* A thread object whose first run threw: nothing was ever stored.
C16_FreshFailure ==
  (runs = 1 /\ outcome = "threw") =>
    /\ gmicStatus = << >>
    /\ persistentMemoryOutput = << >>
    /\ gmicStatusList = << >>
    /\ parametersVisibilityStates = << >>

\* C16: the status string and the persistent-memory output are written only
\* on the path of normal completion, after the interpreter call has returned;
\* a run whose interpreter call throws leaves both as they were, so that on a
\* fresh thread that fails gmicStatus() and parametersVisibilityStates() are
\* empty lists.
C16_WrittenOnSuccessOnly ==
  /\ [][C16_Step]_vars
  /\ []C16_FreshFailure

\* A second run that threw, with what the first run stored still in place.
C16_Witness ==
  /\ pc = "finished"
  /\ runs = 2
  /\ outcome = "threw"
  /\ gmicStatus # << >>
  /\ persistentMemoryOutput # << >>

---------------------------------------------------------------------------
(* More claims about the decoder.                                            *)

\* The iteration made on an opening brace met inside a segment only moves on
\* to the next character.
C14_InnerBraceStep ==
  (/\ dpc = "loop"
   /\ scan.k < strlen(status)
   /\ CharAt(status, scan.k) = gmic_lbrace
   /\ scan.is_inside) =>
    /\ scan' = [scan EXCEPT !.k = scan.k + 1]
    /\ dpc' = "loop"

\* "{a{b}" in token mode is the one token "a{b".
C14_Example ==
  (dpc = "done" /\ ~output_visibility /\ status = ExNested) =>
    qlist = << <<ChA, gmic_lbrace, ChB>> >>

\* C14: an opening brace met inside a segment is inert: it starts no segment,
\* does not move the segment's start, does not trigger the end-of-string
\* check, and so is part of the token; the next closing brace ends the outer
\* segment, "{a{b}" giving the token "a{b".
C14_InnerBraceInert ==
  /\ [][C14_InnerBraceStep]_vars
  /\ []C14_Example

C14_Witness ==
  /\ dpc = "done"
  /\ ~output_visibility
  /\ status = ExNested
  /\ qlist = << <<ChA, gmic_lbrace, ChB>> >>

\* For a segmented s, the text between the braces of each segment.
RECURSIVE SegmentTokensOf(_)
SegmentTokensOf(s) ==
  IF s = << >> THEN << >>
  ELSE <<SubSeq(s, 2, FirstRbrace(s) - 1)>>
         \o SegmentTokensOf(AfterFirstSegmentAndSuffix(s))

\* After zero or more segments (with their suffixes) comes a segment whose
\* closing brace is followed by '_' and then by no digit '0'..'2'.
RECURSIVE BadSuffixAfterBrace(_)
BadSuffixAfterBrace(s) ==
  /\ s # << >>
  /\ s[1] = gmic_lbrace
  /\ FirstRbrace(s) # 0
  /\ LET rest == AfterFirstSegment(s)
     IN  \/ rest # << >> /\ rest[1] = Underscore /\ ~StartsWithSuffix(rest)
         \/ BadSuffixAfterBrace(AfterFirstSegmentAndSuffix(s))

\* C17: '_' and a digit '0'..'2' right after a closing brace are consumed as
\* that segment's suffix: visibility mode emits the digit, token mode the text
\* between the braces unchanged, and the scan goes on behind the digit; when
\* the '_' is followed by another character or by nothing it is a stray
\* character and the result is the empty list.
C17_SuffixConsumed ==
  /\ (dpc = "done" /\ ~output_visibility /\ Segmented(status)) =>
       qlist = SegmentTokensOf(status)
  /\ (dpc = "ret" /\ output_visibility /\ Segmented(status)) =>
       /\ scan.out = [i \in 1..Len(SuffixesOf(status)) |-> <<SuffixesOf(status)[i]>>]
       /\ scan.k = strlen(status)
  /\ (dpc \in {"ret", "done"} /\ BadSuffixAfterBrace(status)) =>
       /\ scan.out = << >>
       /\ dpc = "done" => qlist = << >>
  /\ (dpc = "done" /\ ~output_visibility /\ status = ExSuffixThenSegment) =>
       qlist = << <<ChA>>, <<ChB>> >>
  /\ BadSuffixAfterBrace(ExABadSuffix)

C17_Witness ==
  /\ dpc = "done"
  /\ ~output_visibility
  /\ status = ExSuffixThenSegment
  /\ qlist = << <<ChA>>, <<ChB>> >>

\* C18: for every status string the token list and the visibility list have
\* the same length (one entry each per segment), and so are empty for the
\* same inputs: the list one mode has decoded step by step is as long as the
\* list the other mode gives for the same string.
C18_SameLength ==
  dpc = "done" =>
    /\ output_visibility => Len(qlist) = Len(status2StringList(status))
    /\ ~output_visibility => Len(qlist) = Len(status2Visibilities(status))

C18_Witness ==
  /\ dpc = "done"
  /\ ~output_visibility
  /\ status = ExFooBarSuffix
  /\ Len(qlist) = 2
  /\ Len(status2Visibilities(status)) = 2

\* C19: for a status string of length len the loop of status2Items reads
\* positions in [0, len) only; a step reads a position beyond the current k
\* (the look-ahead at k + 1 and k + 2) only when k < len - 2; and at every
\* closing brace that ends a segment the segment start pk is at most the
\* brace's index, so the ck - pk characters copied lie inside the string.
C19_ReadStep ==
  \A p \in reads' \ reads :
    /\ p <= scan.k + 2
    /\ p > scan.k =>
         /\ scan.k < strlen(status) - 2
         /\ CharAt(status, scan.k) = gmic_rbrace

C19_State ==
  /\ status # NullPtr => reads \subseteq 0..(strlen(status) - 1)
  /\ (dpc = "loop" /\ scan.is_inside) => (1 <= scan.pk /\ scan.pk <= scan.k)
  /\ (dpc = "loop" /\ scan.k < strlen(status) /\ scan.is_inside
        /\ CharAt(status, scan.k) = gmic_rbrace) =>
       /\ scan.k - scan.pk >= 0
       /\ CopyReads(scan) \subseteq 0..(strlen(status) - 1)
  /\ status = NullPtr => reads = {}

C19_ReadsInBounds == [][C19_ReadStep]_vars /\ []C19_State

C19_Witness ==
  /\ dpc = "ret"
  /\ ~output_visibility
  /\ status = ExSuffixThenSegment
  /\ reads = 0..(strlen(status) - 1)
  /\ Len(scan.out) = 2

=============================================================================
